---- MODULE Spec2Model ----
(***************************************************************************)
(* A model of dtr's MRC tomography reader, src/dtr/src/mrc.c:              *)
(*   mrc_read        reads the primary header, the extended headers and    *)
(*                   the planes of a tilt series, and hands every plane to *)
(*                   image_add;                                            *)
(*   mrc_is_mrcfile  tests a file name for the suffix ".mrc".              *)
(* Three specifications share the variables:                               *)
(*   Spec      mrc_read, statement by statement, on small files;           *)
(*   SeekSpec  the fseek target of line 86 on headers of any size;         *)
(*   NameSpec  mrc_is_mrcfile on short strings.                            *)
(***************************************************************************)
EXTENDS Integers, Sequences, FiniteSets, TLC

VARIABLES
    file,       \* the input file: [exists, hdr, len, seed]; never changes
    junk,       \* which indeterminate content uninitialised memory holds
    abi,        \* sizeof(size_t) = sizeof(long) of the build, in bytes
    pc,         \* the statement mrc_read is at
    fh,         \* the FILE *: "none", "open", "null" (fopen failed), "closed"
    nclose,     \* fclose calls made so far
    badio,      \* an fread/fseek/fclose was made on a null or closed handle
    pos,        \* the stream position, a natural number (bytes)
    mrc,        \* MRCHeader mrc, as fread left it
    hdrfull,    \* the fread of line 42 got all sizeof(MRCHeader) bytes
    extsize,    \* unsigned int extsize
    i,          \* unsigned int i
    ext,        \* MRCExtHeader ext[]: the slots touched so far, slot k at ext[k+1]
    nextread,   \* fread calls of line 63 made so far
    nplaneread, \* fread calls of line 87 made so far
    oob,        \* a slot outside ext[0..1023] was written or read
    stale,      \* a slot was read that no fread had filled from the file
    short,      \* an fread got fewer bytes than it asked for
    ctx,        \* the fields of ControlContext that mrc_read assigns
    images,     \* the image_add calls made so far, in order
    ret,        \* mrc_read's return value; NoRet until it returns
    seeks,      \* SeekSpec: the fseek targets computed so far
    name,       \* NameSpec: the bytes of filename, without the terminator
    before,     \* NameSpec: the bytes of memory lying just before filename
    verdict,    \* NameSpec: what mrc_is_mrcfile returned; NoRet before
    underrun    \* NameSpec: mrc_is_mrcfile read a byte in front of filename

vars == <<file, junk, abi, pc, fh, nclose, badio, pos, mrc, hdrfull, extsize, i, ext,
          nextread, nplaneread, oob, stale, short, ctx, images, ret, seeks, name,
          before, verdict, underrun>>

readvars == <<file, junk, abi, pc, fh, nclose, badio, pos, mrc, hdrfull, extsize, i,
              ext, nextread, nplaneread, oob, stale, short, ctx, images, ret>>

namevars == <<name, before, verdict, underrun>>

(***************************************************************************)
(* C integers.  TLC's integers are 32-bit, so a value that may reach 2^31  *)
(* is a natural number written as its bytes, least significant first, with *)
(* no leading zero byte.                                                    *)
(***************************************************************************)
Radix == 2^8

Min(a, b) == IF a < b THEN a ELSE b

Max(a, b) == IF a < b THEN b ELSE a

RECURSIVE Bytes(_, _)
\* The k-byte two's complement image of the integer n: what the conversion
\* of an int to a k-byte unsigned type yields.
Bytes(n, k) ==
    IF k = 0 THEN <<>> ELSE <<n % Radix>> \o Bytes(n \div Radix, k - 1)

RECURSIVE Norm(_)
Norm(a) ==
    IF a # <<>> /\ a[Len(a)] = 0 THEN Norm(SubSeq(a, 1, Len(a) - 1)) ELSE a

\* An unsigned value below 2^31.
Num(n) == Norm(Bytes(n, 4))

\* (unsigned int) n, for an int n.
U32(n) == Norm(Bytes(n, 4))

Digit(a, k) == IF k <= Len(a) THEN a[k] ELSE 0

RECURSIVE AddFrom(_, _, _, _)
AddFrom(a, b, k, c) ==
    IF k > Len(a) /\ k > Len(b)
    THEN IF c = 0 THEN <<>> ELSE <<c>>
    ELSE LET s == Digit(a, k) + Digit(b, k) + c
         IN  <<s % Radix>> \o AddFrom(a, b, k + 1, s \div Radix)

Add(a, b) == Norm(AddFrom(a, b, 1, 0))

RECURSIVE ScaleFrom(_, _, _, _)
ScaleFrom(a, d, k, c) ==
    IF k > Len(a)
    THEN IF c = 0 THEN <<>> ELSE <<c>>
    ELSE LET s == a[k] * d + c
         IN  <<s % Radix>> \o ScaleFrom(a, d, k + 1, s \div Radix)

RECURSIVE Mul(_, _)
Mul(a, b) ==
    IF a = <<>> THEN <<>>
    ELSE Add(ScaleFrom(b, a[1], 1, 0), <<0>> \o Mul(Tail(a), b))

\* a modulo 2^(8k): a k-byte unsigned type keeps the low k bytes.
Wrap(a, k) == Norm(SubSeq(a, 1, Min(k, Len(a))))

RECURSIVE LessFrom(_, _, _)
LessFrom(a, b, k) ==
    IF k = 0 THEN FALSE
    ELSE IF a[k] # b[k] THEN a[k] < b[k] ELSE LessFrom(a, b, k - 1)

Less(a, b) ==
    IF Len(a) # Len(b) THEN Len(a) < Len(b) ELSE LessFrom(a, b, Len(a))

Leq(a, b) == ~Less(b, a)

RECURSIVE Val(_)
\* The integer a natural below 2^31 stands for.
Val(a) == IF a = <<>> THEN 0 ELSE a[1] + Radix * Val(Tail(a))

\* A k-byte unsigned value reads as negative in the signed type of its width.
Negative(a, k) == Len(a) = k /\ a[k] >= Radix \div 2

\* i < mrc.nz with unsigned int i and int nz: nz is converted to unsigned.
ULess(m, n) == Less(U32(m), U32(n))

(***************************************************************************)
(* Sizes.  mrc.h is not among the sources: the two struct sizes are those  *)
(* of the MRC format (a 1024-byte header) and of its FEI extended header   *)
(* (128 bytes).                                                            *)
(***************************************************************************)
HeaderSize == 1024

ExtHeaderSize == 128

\* MRCExtHeader ext[1024]
ExtCapacity == 1024

\* lambda(200000)
DefaultVolts == 200000

(***************************************************************************)
(* Bounds of the model.                                                    *)
(***************************************************************************)
\* nx and ny range over 1..MaxDim
MaxDim == 2

\* nz ranges over 0..MaxNz, besides the plane counts around ExtCapacity
MaxNz == 2

\* the file content is one of 1 + MaxSeed patterns
MaxSeed == 1

\* a truncated file lacks 1..MaxCut bytes at its end
MaxCut == 2

\* slots past the end of ext[] that a run may touch before the model ends it
MaxOverrun == 1

\* The return value of a call that has not returned.
NoRet == <<>>

\* An output sample no statement has assigned.
Unwritten == 0 - 1

(***************************************************************************)
(* The input file.                                                         *)
(***************************************************************************)
Header(nx, ny, nz, mode, xs, ys, ni, nf, nxt) ==
    [nx |-> nx, ny |-> ny, nz |-> nz, mode |-> mode, nxstart |-> xs,
     nystart |-> ys, numintegers |-> ni, numfloats |-> nf, next |-> nxt]

\* numintegers, numfloats: 4*ni + 4*nf is 0, 8, 8, 128, 132, -4, 8, 2^32,
\* 2^32 and 2^32 + 8.
Counts ==
    { <<0, 0>>, <<0, 2>>, <<1, 1>>, <<32, 0>>, <<33, 0>>, <<0 - 1, 0>>,
      <<0 - 1, 3>>, <<2^30, 0>>, <<2^29, 2^29>>, <<2^30 + 2, 0>> }

\* 4*ni + 4*nf as a mathematical integer, in units of 4 bytes.
MathExtUnits(h) == h.numintegers + h.numfloats

\* The record size the file's writer used: the mathematical size when it is a
\* size the format allows, 0 otherwise.
WrittenExtSize(h) ==
    IF MathExtUnits(h) >= 0 /\ MathExtUnits(h) <= ExtHeaderSize \div 4
    THEN 4 * MathExtUnits(h) ELSE 0

PlaneCount(h) == Max(h.nz, 0)

\* The next field of a header: no extended-header block, the nz records
\* and nothing else, or the records and 8 bytes of padding.
Blocks == {"none", "exact", "padded"}

NextOf(nz, c, blk) ==
    LET h == Header(1, 1, nz, 1, 0, 0, c[1], c[2], 0)
    IN  CASE blk = "none" -> 0
          [] blk = "exact" -> PlaneCount(h) * WrittenExtSize(h)
          [] blk = "padded" -> PlaneCount(h) * WrittenExtSize(h) + 8

SmallHeaders ==
    { Header(nx, ny, nz, mode, xs, ys, c[1], c[2], NextOf(nz, c, blk)) :
        nx \in 1..MaxDim, ny \in 1..MaxDim, nz \in 0..MaxNz, mode \in 0..2,
        xs \in 0..1, ys \in 0..1, c \in Counts, blk \in Blocks }

\* Series of about ExtCapacity planes, and a negative plane count.
LongHeaders ==
    { Header(1, 1, nz, 1, 0, 0, 0, 2, Max(nz, 0) * 8) :
        nz \in {ExtCapacity, ExtCapacity + 1, 0 - 1} }

\* The length of the file a writer produces for header h.
FullLen(h) == HeaderSize + h.next + PlaneCount(h) * h.nx * h.ny * 2

Accepted(h) == h.mode = 1 /\ h.nxstart = 0 /\ h.nystart = 0

Lengths(h) ==
    { FullLen(h) - c : c \in 0..MaxCut } \cup
    { n \in {0, HeaderSize - 1, HeaderSize, HeaderSize + 4} : n < FullLen(h) }

\* A file that cannot be opened; every well laid out header with its full
\* file; every accepted header with its file cut short and with each content.
Files ==
    { [exists |-> FALSE, hdr |-> Header(1, 1, 1, 1, 0, 0, 0, 2, 8),
       len |-> 0, seed |-> 0] }
    \cup
    { [exists |-> TRUE, hdr |-> h, len |-> FullLen(h), seed |-> 0] :
        h \in SmallHeaders \cup LongHeaders }
    \cup
    UNION { { [exists |-> TRUE, hdr |-> h, len |-> n, seed |-> s] :
                n \in Lengths(h), s \in 0..MaxSeed } :
            h \in { g \in SmallHeaders : Accepted(g) } }

\* The 16-bit samples that occur in files.
Pattern == <<0 - 32768, 5, 0 - 1, 32767, 0, 1, 300>>

\* The signed 16-bit sample stored at byte offset o of file f.
SampleAt(f, o) == Pattern[(((o \div 2) + f.seed) % Len(Pattern)) + 1]

Tilts == <<0 - 60, 0 - 30, 0, 30, 60>>

Axes == <<0, 90, 45>>

Magnifications == <<17, 29, 31, 37, 41, 43, 47>>

Voltages == <<0, 200, 300, 0, 120>>

PixelSizes == <<3, 7, 11, 13>>

\* The extended header stored at byte offset o of file f.
ExtAt(f, o) ==
    LET q == (o \div 4) + f.seed
    IN  [a_tilt |-> Tilts[(q % Len(Tilts)) + 1],
         tilt_axis |-> Axes[(q % Len(Axes)) + 1],
         magnification |-> Magnifications[(q % Len(Magnifications)) + 1],
         voltage |-> Voltages[(q % Len(Voltages)) + 1],
         pixel_size |-> PixelSizes[(q % Len(PixelSizes)) + 1]]

(***************************************************************************)
(* Uninitialised memory: the stack frame (mrc, ext[]) and what malloc      *)
(* returns hold one of these contents, chosen once per run.                *)
(***************************************************************************)
JunkHeaders ==
    << Header(1, 1, 1, 1, 0, 0, 0, 2, 8), Header(2, 1, 2, 0, 0, 1, 33, 0, 0) >>

JunkExts ==
    << [a_tilt |-> 1, tilt_axis |-> 2, magnification |-> 3, voltage |-> 0,
        pixel_size |-> 5],
       [a_tilt |-> 0 - 9, tilt_axis |-> 8, magnification |-> 6, voltage |-> 4,
        pixel_size |-> 2] >>

JunkSamples == <<0 - 3, 9>>

Junks == 1..Len(JunkSamples)

(***************************************************************************)
(* The expressions of mrc_read.                                            *)
(***************************************************************************)
\* extsize = 4*mrc.numintegers + 4*mrc.numfloats, line 56: int arithmetic,
\* which wraps at 32 bits on overflow, converted to unsigned int.
ExtSizeOf(h) ==
    Wrap(Add(Wrap(Mul(Num(4), U32(h.numintegers)), 4),
             Wrap(Mul(Num(4), U32(h.numfloats)), 4)), 4)

\* extsize > sizeof(MRCExtHeader), line 57.
TooBig(es) == Less(Num(ExtHeaderSize), es)

\* mrc.nx*mrc.ny*2 in int (lines 86, 87).
PlaneBytes(h) == Wrap(Mul(Wrap(Mul(U32(h.nx), U32(h.ny)), 4), Num(2)), 4)

\* mrc.next + sizeof(MRCHeader) + mrc.nx*mrc.ny*2*i, line 86: the product is
\* unsigned int (i is), the sums are size_t (sizeof is), sz bytes wide.
SeekTarget(h, k, sz) ==
    Wrap(Add(Wrap(Add(Norm(Bytes(h.next, sz)), Num(HeaderSize)), sz),
             Wrap(Mul(PlaneBytes(h), U32(k)), 4)), sz)

\* fseek(fh, target, SEEK_SET), line 86: the target is converted to long; a
\* negative offset is refused and leaves the position where it was.
SeekSet(p, target, sz) == IF Negative(target, sz) THEN p ELSE target

\* The position after an fread of n bytes at position p of file f.
AfterRead(f, p, n) ==
    IF Less(p, Num(f.len))
    THEN IF Less(Num(f.len), Add(p, n)) THEN Num(f.len) ELSE Add(p, n)
    ELSE p

\* fread(&ext[i], extsize, 1, fh), line 63, at position p, into a slot that
\* held old: what the slot may hold afterwards.  It is filled when the file
\* has all extsize bytes; a record the file holds in part is indeterminate
\* (the old content, or the bytes that were there followed by old ones).
ExtRead(f, p, es, old) ==
    IF es # <<>> /\ Leq(Add(p, es), Num(f.len))
    THEN { [rec |-> ExtAt(f, Val(p)), filled |-> TRUE] }
    ELSE IF es # <<>> /\ Less(p, Num(f.len))
    THEN { old, [rec |-> ExtAt(f, Val(p)), filled |-> FALSE] }
    ELSE { old }

\* fread(image, mrc.nx*mrc.ny*2, 1, fh), line 87, at position p into a fresh
\* buffer of n samples: a sample the file does not hold in full stays what
\* malloc returned.
PlaneRead(f, p, n, j) ==
    [k \in 1..n |->
        IF Leq(Add(p, Num(2 * k)), Num(f.len))
        THEN SampleAt(f, Val(p) + 2 * (k - 1))
        ELSE JunkSamples[j]]

\* All n samples of the fread at position p came from the file.
PlaneWhole(f, p, n) == Leq(Add(p, Num(2 * n)), Num(f.len))

\* Clip without the test of line 92: the sample is stored as it is.
ClipStored(s) == s % 2^16

\* Lines 92-96: a negative sample becomes 0, any other is stored as uint16_t.
Clip(s) == IF s < 0 THEN 0 ELSE s % 2^16

\* Lines 89-99: uimage[x + mrc.nx*y] for x < nx, y < ny; uimage is a fresh
\* buffer of ny*nx samples.
ClipPlane(image, nx, ny) ==
    [k \in 1..(ny * nx) |->
        IF \E x \in 0..(nx - 1), y \in 0..(ny - 1) : x + nx * y = k - 1
        THEN Clip(image[k]) ELSE Unwritten]

\* lambda(V) of utils.h: the electron wavelength at V volts.
lambda(V) == <<"lambda", V>>

\* deg2rad(a) of utils.h.
deg2rad(a) == <<"rad", a>>

\* Calibrate without the test of line 78: voltage 0 is converted like any other.
CalibrateNoDefault(c, e) ==
    [c EXCEPT !.camera_length = e.magnification,
              !.lambda = lambda(1000 * e.voltage),
              !.omega = deg2rad(e.tilt_axis),
              !.pixel_size = e.pixel_size]

\* Lines 77-84: the context after the assignments made for slot e.
Calibrate(c, e) ==
    [c EXCEPT !.camera_length = e.magnification,
              !.lambda = IF e.voltage = 0 THEN lambda(DefaultVolts)
                         ELSE lambda(1000 * e.voltage),
              !.omega = deg2rad(e.tilt_axis),
              !.pixel_size = e.pixel_size]

\* The context the caller passes in.
CtxInit ==
    [fmode |-> "FORMULATION_CLEN", camera_length |-> 0, lambda |-> lambda(0),
     omega |-> deg2rad(360), pixel_size |-> 0]

\* The slot ext[k] as the stack frame holds it.
Slot(k) ==
    IF k < Len(ext) THEN ext[k + 1]
    ELSE [rec |-> JunkExts[junk], filled |-> FALSE]

(***************************************************************************)
(* mrc_read, statement by statement.                                       *)
(***************************************************************************)
Idle ==
    /\ seeks = <<>>
    /\ name = <<>>
    /\ before = <<>>
    /\ verdict = NoRet
    /\ underrun = FALSE

\* The builds: size_t and long have 4 bytes (ILP32) or 8 (LP64).
Abis == {4, 8}

\* The long series are run on one build and one memory content.
Init ==
    /\ file \in Files
    /\ junk \in Junks
    /\ abi \in Abis
    /\ file.hdr \in LongHeaders => junk = 1 /\ abi = 8
    /\ pc = "fopen"
    /\ fh = "none"
    /\ nclose = 0
    /\ badio = FALSE
    /\ pos = <<>>
    /\ mrc = JunkHeaders[junk]
    /\ hdrfull = FALSE
    /\ extsize = <<>>
    /\ i = 0
    /\ ext = <<>>
    /\ nextread = 0
    /\ nplaneread = 0
    /\ oob = FALSE
    /\ stale = FALSE
    /\ short = FALSE
    /\ ctx = CtxInit
    /\ images = <<>>
    /\ ret = NoRet
    /\ Idle

\* fclose(fh); return v;
CloseAndReturn(v) ==
    /\ badio' = (badio \/ fh # "open")
    /\ fh' = "closed"
    /\ nclose' = nclose + 1
    /\ ret' = <<v>>
    /\ pc' = "done"

\* Line 39: fh = fopen(ctx->filename, "rb"); the result is not tested.
Fopen ==
    /\ pc = "fopen"
    /\ fh' = IF file.exists THEN "open" ELSE "null"
    /\ pc' = "header"
    /\ UNCHANGED <<file, junk, abi, nclose, badio, pos, mrc, hdrfull, extsize,
                   i, ext, nextread, nplaneread, oob, stale, short, ctx, images, ret>>
    /\ UNCHANGED <<seeks, namevars>>

\* What fread(&mrc, sizeof(MRCHeader), 1, fh) may leave in mrc, which held
\* old: the header of the file; of a header the file holds in part, the old
\* content or the fields of the file (the record is indeterminate); of an
\* empty file, the old content.
HeaderRead(f, old) ==
    IF f.len >= HeaderSize THEN {f.hdr}
    ELSE IF f.len > 0 THEN {old, f.hdr}
    ELSE {old}

\* Line 42: fread(&mrc, sizeof(MRCHeader), 1, fh); the result is not tested.
ReadHeader ==
    /\ pc = "header"
    /\ fh = "open"
    /\ hdrfull' = (file.len >= HeaderSize)
    /\ mrc' \in HeaderRead(file, mrc)
    /\ pos' = AfterRead(file, pos, Num(HeaderSize))
    /\ pc' = "check"
    /\ short' = (file.len < HeaderSize)
    /\ UNCHANGED <<file, junk, abi, fh, nclose, badio, extsize, i, ext,
                   nextread, nplaneread, oob, stale, ctx, images, ret>>
    /\ UNCHANGED <<seeks, namevars>>

\* Line 42 with fh = NULL: fread dereferences the null stream, and the process
\* is killed.
ReadHeaderNull ==
    /\ pc = "header"
    /\ fh = "null"
    /\ badio' = TRUE
    /\ pc' = "crashed"
    /\ UNCHANGED <<file, junk, abi, fh, nclose, pos, mrc, hdrfull, extsize, i,
                   ext, nextread, nplaneread, oob, stale, short, ctx, images, ret>>
    /\ UNCHANGED <<seeks, namevars>>

\* mrc.mode != 1, line 44.
BadMode(h) == h.mode # 1

\* The test of line 49 with && for ||.
BadOriginBoth(h) == h.nxstart # 0 /\ h.nystart # 0

\* (mrc.nxstart != 0) || (mrc.nystart != 0), line 49.
BadOrigin(h) == h.nxstart # 0 \/ h.nystart # 0

\* Lines 44-48.
RejectMode ==
    /\ pc = "check"
    /\ BadMode(mrc)
    /\ CloseAndReturn(0 - 1)
    /\ UNCHANGED <<file, junk, abi, pos, mrc, hdrfull, extsize, i, ext,
                   nextread, nplaneread, oob, stale, short, ctx, images>>
    /\ UNCHANGED <<seeks, namevars>>

\* Lines 49-53.
RejectOrigin ==
    /\ pc = "check"
    /\ ~BadMode(mrc)
    /\ BadOrigin(mrc)
    /\ CloseAndReturn(0 - 1)
    /\ UNCHANGED <<file, junk, abi, pos, mrc, hdrfull, extsize, i, ext,
                   nextread, nplaneread, oob, stale, short, ctx, images>>
    /\ UNCHANGED <<seeks, namevars>>

\* Line 56.
ComputeExtSize ==
    /\ pc = "check"
    /\ ~BadMode(mrc)
    /\ ~BadOrigin(mrc)
    /\ extsize' = ExtSizeOf(mrc)
    /\ pc' = "extsize"
    /\ UNCHANGED <<file, junk, abi, fh, nclose, badio, pos, mrc, hdrfull, i,
                   ext, nextread, nplaneread, oob, stale, short, ctx, images, ret>>
    /\ UNCHANGED <<seeks, namevars>>

\* Lines 57-61.
RejectExtSize ==
    /\ pc = "extsize"
    /\ TooBig(extsize)
    /\ CloseAndReturn(0 - 1)
    /\ UNCHANGED <<file, junk, abi, pos, mrc, hdrfull, extsize, i, ext,
                   nextread, nplaneread, oob, stale, short, ctx, images>>
    /\ UNCHANGED <<seeks, namevars>>

\* Line 62, i=0.
EnterExtLoop ==
    /\ pc = "extsize"
    /\ ~TooBig(extsize)
    /\ i' = 0
    /\ pc' = "extloop"
    /\ UNCHANGED <<file, junk, abi, fh, nclose, badio, pos, mrc, hdrfull,
                   extsize, ext, nextread, nplaneread, oob, stale, short, ctx, images,
                   ret>>
    /\ UNCHANGED <<seeks, namevars>>

\* Lines 62-64, one iteration: fread(&ext[i], extsize, 1, fh); i++.  The loop
\* has no test against the 1024 slots of ext[]: with i >= 1024 the fread
\* lands in the stack frame past the array.
ReadExt ==
    /\ pc = "extloop"
    /\ ULess(i, mrc.nz)
    /\ i < ExtCapacity + MaxOverrun
    /\ \E e \in ExtRead(file, pos, extsize, Slot(i)) : ext' = Append(ext, e)
    /\ pos' = AfterRead(file, pos, extsize)
    /\ nextread' = nextread + 1
    /\ oob' = (oob \/ i >= ExtCapacity)
    /\ i' = i + 1
    /\ short' = (short \/ Less(Num(file.len), Add(pos, extsize)))
    /\ UNCHANGED <<file, junk, abi, pc, fh, nclose, badio, mrc, hdrfull,
                   extsize, nplaneread, stale, ctx, images, ret>>
    /\ UNCHANGED <<seeks, namevars>>

\* Lines 66-68, and i=0 of line 70.
LeaveExtLoop ==
    /\ pc = "extloop"
    /\ ~ULess(i, mrc.nz)
    /\ stale' = (stale \/ ~Slot(0).filled)
    /\ ctx' = [ctx EXCEPT !.fmode = "FORMULATION_PIXELSIZE"]
    /\ i' = 0
    /\ pc' = "planeloop"
    /\ UNCHANGED <<file, junk, abi, fh, nclose, badio, pos, mrc, hdrfull,
                   extsize, ext, nextread, nplaneread, oob, short, images,
                   ret>>
    /\ UNCHANGED <<seeks, namevars>>

\* What image_add is passed at line 102, with what the model keeps to tell
\* where the plane came from.
Image(u, im, e, c, from, whole) ==
    [uimage |-> u, width |-> mrc.nx, height |-> mrc.ny,
     tilt |-> deg2rad(e.a_tilt), ctx |-> c, slice |-> i, slot |-> e,
     image |-> im, from |-> from, whole |-> whole]

\* Lines 70-104, one iteration.
Plane ==
    /\ pc = "planeloop"
    /\ ULess(i, mrc.nz)
    /\ LET e == Slot(i).rec
           c == Calibrate(ctx, e)
           at == SeekSet(pos, SeekTarget(mrc, i, abi), abi)
           n == mrc.ny * mrc.nx
           im == PlaneRead(file, at, n, junk)
           u == ClipPlane(im, mrc.nx, mrc.ny)
       IN  /\ ctx' = c
           /\ pos' = AfterRead(file, at, PlaneBytes(mrc))
           /\ images' = Append(images,
                               Image(u, im, e, c, at, PlaneWhole(file, at, n)))
           /\ short' = (short \/ ~PlaneWhole(file, at, n))
    /\ stale' = (stale \/ ~Slot(i).filled)
    /\ oob' = (oob \/ i >= ExtCapacity)
    /\ nplaneread' = nplaneread + 1
    /\ i' = i + 1
    /\ UNCHANGED <<file, junk, abi, pc, fh, nclose, badio, mrc, hdrfull,
                   extsize, ext, nextread, ret>>
    /\ UNCHANGED <<seeks, namevars>>

\* Lines 106-108.
Return ==
    /\ pc = "planeloop"
    /\ ~ULess(i, mrc.nz)
    /\ CloseAndReturn(0)
    /\ UNCHANGED <<file, junk, abi, pos, mrc, hdrfull, extsize, i, ext,
                   nextread, nplaneread, oob, stale, short, ctx, images>>
    /\ UNCHANGED <<seeks, namevars>>

\* Once a slot past the end of ext[] has been written, the stack frame is
\* corrupt (the saved registers, the return address or the stack guard lie
\* there): the process may be killed at any later statement, at the latest
\* when the function returns.
Crash ==
    /\ oob
    /\ pc \in {"extloop", "planeloop"}
    /\ pc' = "crashed"
    /\ UNCHANGED <<file, junk, abi, fh, nclose, badio, pos, mrc, hdrfull,
                   extsize, i, ext, nextread, nplaneread, oob, stale, short, ctx,
                   images, ret>>
    /\ UNCHANGED <<seeks, namevars>>

mrc_read ==
    \/ Fopen
    \/ ReadHeader
    \/ ReadHeaderNull
    \/ RejectMode
    \/ RejectOrigin
    \/ ComputeExtSize
    \/ RejectExtSize
    \/ EnterExtLoop
    \/ ReadExt
    \/ LeaveExtLoop
    \/ Plane
    \/ Return
    \/ Crash

Next == mrc_read

Spec == Init /\ [][Next]_vars

(***************************************************************************)
(* The fseek target of line 86 on headers of any size.                     *)
(***************************************************************************)
\* the first MaxSeeks iterations of the plane loop are followed
MaxSeeks == 9

\* Widths and heights up to 2^14, so that nx*ny*2 fits an int; next = 1024*128 is the block FEI writes.
Dims == {1, 2, 3, 2^10, 2^12, 2^14}

SeekHeaders ==
    { Header(nx, ny, MaxSeeks, 1, 0, 0, 0, 32, nxt) :
        nx \in Dims, ny \in Dims, nxt \in {0, 8, ExtCapacity * ExtHeaderSize} }

\* A mrc_read that is in its plane loop.
SeekInit ==
    /\ mrc \in SeekHeaders
    /\ file = [exists |-> TRUE, hdr |-> mrc, len |-> 0, seed |-> 0]
    /\ junk = 1
    /\ abi \in Abis
    /\ pc = "planeloop"
    /\ fh = "open"
    /\ nclose = 0
    /\ badio = FALSE
    /\ pos \in {Num(HeaderSize), Num(HeaderSize + 8)}
    /\ hdrfull = TRUE
    /\ extsize = ExtSizeOf(mrc)
    /\ i = 0
    /\ ext = <<>>
    /\ nextread = 0
    /\ nplaneread = 0
    /\ oob = FALSE
    /\ stale = FALSE
    /\ short = FALSE
    /\ ctx = CtxInit
    /\ images = <<>>
    /\ ret = NoRet
    /\ Idle

\* Line 86 alone, for slice i; the position each fseek leaves is kept.
SeekPlane ==
    /\ pc = "planeloop"
    /\ ULess(i, mrc.nz)
    /\ pos' = SeekSet(pos, SeekTarget(mrc, i, abi), abi)
    /\ seeks' = Append(seeks, pos')
    /\ i' = i + 1
    /\ UNCHANGED <<file, junk, abi, pc, fh, nclose, badio, mrc, hdrfull,
                   extsize, ext, nextread, nplaneread, oob, stale, short, ctx, images,
                   ret>>
    /\ UNCHANGED namevars

SeekNext == SeekPlane

SeekSpec == SeekInit /\ [][SeekNext]_vars

(***************************************************************************)
(* mrc_is_mrcfile.                                                         *)
(***************************************************************************)
\* file names have 0..MaxNameLen characters
MaxNameLen == 5

NUL == "NUL"

Chars == {".", "m", "r", "c", "M"}

Suffix == <<".", "m", "r", "c">>

Strings(S, n) == UNION { [1..k -> S] : k \in 0..n }

\* strlen(filename) - 4 in size_t wraps for a name of fewer than 4 characters,
\* and filename + that is the address 4 - strlen(filename) bytes in front of
\* the string.  Start is the index in memory, counted from the first byte in
\* front that the model keeps, at which strcmp begins.
Start(nm, bf) == Len(bf) + (Len(nm) - 4) + 1

\* The memory around filename: what lies in front, the name, its terminator.
Memory(nm, bf) == bf \o nm \o <<NUL>>

RECURSIVE StrEq(_, _, _)
\* strcmp(s, t) == 0 for the C strings at index k of m and at the start of t.
StrEq(m, k, t) ==
    IF m[k] # Head(t) THEN FALSE
    ELSE IF m[k] = NUL THEN TRUE
    ELSE StrEq(m, k + 1, Tail(t))

\* Line 114.
SuffixMatches(nm, bf) == StrEq(Memory(nm, bf), Start(nm, bf), Suffix \o <<NUL>>)

NameInit ==
    /\ name \in Strings(Chars, MaxNameLen)
    /\ before \in Strings(Chars \cup {NUL}, 4)
    /\ Len(before) = Max(4 - Len(name), 0)
    /\ verdict = NoRet
    /\ underrun = FALSE
    /\ seeks = <<>>
    /\ file = [exists |-> FALSE, hdr |-> JunkHeaders[1], len |-> 0, seed |-> 0]
    /\ junk = 1
    /\ abi = 8
    /\ pc = "call"
    /\ fh = "none"
    /\ nclose = 0
    /\ badio = FALSE
    /\ pos = <<>>
    /\ mrc = JunkHeaders[1]
    /\ hdrfull = FALSE
    /\ extsize = <<>>
    /\ i = 0
    /\ ext = <<>>
    /\ nextread = 0
    /\ nplaneread = 0
    /\ oob = FALSE
    /\ stale = FALSE
    /\ short = FALSE
    /\ ctx = CtxInit
    /\ images = <<>>
    /\ ret = NoRet

\* Lines 112-120.
mrc_is_mrcfile ==
    /\ pc = "call"
    /\ underrun' = (Len(name) < 4)
    /\ verdict' = IF SuffixMatches(name, before) THEN <<1>> ELSE <<0>>
    /\ pc' = "returned"
    /\ UNCHANGED <<name, before, seeks>>
    /\ UNCHANGED <<file, junk, abi, fh, nclose, badio, pos, mrc, hdrfull,
                   extsize, i, ext, nextread, nplaneread, oob, stale, short, ctx,
                   images, ret>>

\* Line 114 when the bytes in front of a short name are not mapped: strcmp
\* faults on its first read.
NameFault ==
    /\ pc = "call"
    /\ Len(name) < 4
    /\ underrun' = TRUE
    /\ pc' = "faulted"
    /\ UNCHANGED <<name, before, verdict, seeks>>
    /\ UNCHANGED <<file, junk, abi, fh, nclose, badio, pos, mrc, hdrfull,
                   extsize, i, ext, nextread, nplaneread, oob, stale, short, ctx,
                   images, ret>>

NameNext == mrc_is_mrcfile \/ NameFault

NameSpec == NameInit /\ [][NameNext]_vars

(***************************************************************************)
(* What the format says a file holds, for stating the claims.              *)
(***************************************************************************)
\* The byte offset of plane k: the planes follow the header and the next
\* bytes of extended headers, nx*ny*2 bytes each.
PlaneStart(h, k) == HeaderSize + h.next + h.nx * h.ny * 2 * k

\* The signed samples of plane k of file f, row-major.
FilePlane(f, k) ==
    [j \in 1..(f.hdr.nx * f.hdr.ny) |->
        SampleAt(f, PlaneStart(f.hdr, k) + 2 * (j - 1))]

\* 4*numintegers + 4*numfloats, as a mathematical integer, is negative or
\* exceeds sizeof(MRCExtHeader).
MathExtBad(h) ==
    MathExtUnits(h) < 0 \/ MathExtUnits(h) > ExtHeaderSize \div 4

\* A valid input: mode 1, origin 0, extended headers within the maximum and
\* inside the block of next bytes, and no byte of the file missing.
ValidInput(f) ==
    /\ f.exists
    /\ Accepted(f.hdr)
    /\ f.hdr.nz >= 0
    /\ ~MathExtBad(f.hdr)
    /\ f.hdr.next >= f.hdr.nz * WrittenExtSize(f.hdr)
    /\ f.len >= FullLen(f.hdr)

Ended == pc \in {"done", "crashed"}

(***************************************************************************)
(* The claims.                                                             *)
(***************************************************************************)
\* C1: on every valid input (mode 1, origin 0, extended-header size within
\* the maximum, file complete) mrc_read calls image_add exactly nz times, the
\* k-th call with the plane of slice k, width nx and height ny, in increasing
\* slice order, and then returns 0.
C1_EveryPlaneEmitted ==
    ValidInput(file) =>
        /\ \A k \in 1..Len(images) :
              /\ images[k].slice = k - 1
              /\ images[k].width = file.hdr.nx
              /\ images[k].height = file.hdr.ny
              /\ images[k].image = FilePlane(file, k - 1)
        /\ Ended => ret = <<0>> /\ Len(images) = file.hdr.nz

\* C1 holds of the series that fit ext[]: this is what the code does on the
\* valid inputs of at most ExtCapacity planes.
C1_WithinCapacity == file.hdr.nz <= ExtCapacity => C1_EveryPlaneEmitted

\* A valid series of MaxNz planes has been decoded.
C1_Decoded ==
    /\ ValidInput(file)
    /\ pc = "done"
    /\ file.hdr.nz = MaxNz
    /\ Len(images) = MaxNz

\* C2: in every emitted plane the sample at row-major index x + nx*y is the
\* source sample s at that index when s >= 0 and 0 when s < 0; all nx*ny
\* output samples are written; clipping a clipped sample changes nothing.
C2_Clipped ==
    \A k \in 1..Len(images) :
        LET im == images[k]
        IN  /\ DOMAIN im.uimage = 1..(im.width * im.height)
            /\ \A x \in 0..(im.width - 1), y \in 0..(im.height - 1) :
                  LET s == im.image[x + im.width * y + 1]
                      u == im.uimage[x + im.width * y + 1]
                  IN  /\ s >= 0 => u = s
                      /\ s < 0 => u = 0
            /\ \A j \in DOMAIN im.uimage :
                  /\ im.uimage[j] # Unwritten
                  /\ im.uimage[j] \in 0..(2^16 - 1)
                  /\ Clip(im.uimage[j]) = im.uimage[j]

\* A plane of more than one row and column with a negative, a zero and a
\* positive sample has been emitted.
C2_MixedPlane ==
    \E k \in 1..Len(images) :
        /\ images[k].width > 1 /\ images[k].height > 1
        /\ \E j \in DOMAIN images[k].image : images[k].image[j] < 0
        /\ \E j \in DOMAIN images[k].image : images[k].image[j] = 0
        /\ \E j \in DOMAIN images[k].image : images[k].image[j] > 0

\* C3: if the stream ends before a record mrc_read reads is complete (the
\* header, an extended header, a plane) mrc_read reports failure, and no
\* plane with a sample not read from the file is passed to image_add.
C3_TruncationReported ==
    /\ pc = "done" /\ short => ret = <<0 - 1>>
    /\ \A k \in 1..Len(images) : images[k].whole

\* C4: a header with mode # 1, nxstart # 0 or nystart # 0 makes mrc_read
\* return -1 with no extended header and no plane read, no image_add call and
\* the context unchanged, whatever the other header fields are.
C4_Rejected ==
    pc \notin {"fopen", "header", "crashed"} /\ ~Accepted(mrc) =>
        /\ pc \in {"check", "done"}
        /\ pc = "done" => ret = <<0 - 1>>
        /\ nextread = 0
        /\ nplaneread = 0
        /\ images = <<>>
        /\ ctx = CtxInit

\* A header read in full from the file, of a 16-bit series of MaxNz planes
\* whose origin is not zero, has been rejected.
C4_OriginRejected ==
    /\ pc = "done"
    /\ hdrfull
    /\ mrc.mode = 1
    /\ mrc.nxstart = 0
    /\ mrc.nystart # 0
    /\ mrc.nz = MaxNz
    /\ ~MathExtBad(mrc)

\* C5: whenever 4*numintegers + 4*numfloats, as a mathematical integer, is
\* negative or exceeds sizeof(MRCExtHeader), mrc_read returns failure before
\* any extended header or plane is read and before any image_add call, also
\* when the 32-bit product or sum wraps.
C5_ExtSizeRejected ==
    pc \notin {"fopen", "header", "crashed"} /\ MathExtBad(mrc) =>
        /\ pc = "done" => ret = <<0 - 1>>
        /\ pc \in {"check", "extsize", "done"}
        /\ nextread = 0
        /\ nplaneread = 0
        /\ images = <<>>

\* C6: whenever mrc_read returns the handle has been closed exactly once; no
\* read, seek or close is made on a closed handle or on one that failed to
\* open.
C6_HandleDiscipline ==
    /\ pc = "done" => nclose = 1 /\ fh = "closed"
    /\ nclose <= 1
    /\ ~badio

\* C7: for a name of any length mrc_is_mrcfile returns 1 exactly when the
\* name has at least four characters and ends in ".mrc"; for a shorter name
\* it returns 0 and reads no memory in front of the string.
C7_SuffixTest ==
    /\ pc = "returned" =>
          (verdict = <<1>> <=>
              /\ Len(name) >= 4
              /\ SubSeq(name, Len(name) - 3, Len(name)) = Suffix)
    /\ pc # "faulted"
    /\ ~underrun

\* The byte offset of plane k as a mathematical integer.
MathOffset(h, k) ==
    Add(Add(Num(h.next), Num(HeaderSize)),
        Mul(Mul(Mul(Num(h.nx), Num(h.ny)), Num(2)), Num(k)))

\* C8: the samples of plane i are read at the absolute offset
\* next + sizeof(MRCHeader) + nx*ny*2*i, computed without 32-bit wrap-around,
\* whatever the stream position was; the planes are consecutive and disjoint.
C8_PlaneOffsets ==
    \A k \in 1..Len(seeks) :
        /\ seeks[k] = MathOffset(mrc, k - 1)
        /\ k > 1 =>
              seeks[k] = Add(seeks[k - 1],
                             Mul(Mul(Num(mrc.nx), Num(mrc.ny)), Num(2)))

\* The calibration lines 77-84 are to derive from an extended header.
Calibration(e) ==
    [camera_length |-> e.magnification,
     omega |-> deg2rad(e.tilt_axis),
     pixel_size |-> e.pixel_size,
     lambda |-> IF e.voltage = 0 THEN lambda(DefaultVolts)
                ELSE lambda(1000 * e.voltage)]

Holds(c, e) ==
    /\ c.camera_length = Calibration(e).camera_length
    /\ c.omega = Calibration(e).omega
    /\ c.pixel_size = Calibration(e).pixel_size
    /\ c.lambda = Calibration(e).lambda
    /\ e.voltage \in {0, 200} => c.lambda = lambda(DefaultVolts)

\* C9: when image_add is called for slice i the context holds the
\* calibration of ext[i] (voltage 0 giving the wavelength of 200 kV, as
\* voltage 200 does) and the tilt passed is deg2rad(ext[i].a_tilt); after a
\* successful decode the context holds the values of slice nz-1.
C9_Calibrated ==
    /\ \A k \in 1..Len(images) :
          /\ Holds(images[k].ctx, Slot(images[k].slice).rec)
          /\ images[k].tilt = deg2rad(Slot(images[k].slice).rec.a_tilt)
          /\ Slot(images[k].slice).filled =>
                Slot(images[k].slice).rec
                    = ExtAt(file, HeaderSize + (k - 1) * Val(extsize))
    /\ pc = "done" /\ ret = <<0>> /\ mrc.nz >= 1 =>
          /\ Holds(ctx, Slot(mrc.nz - 1).rec)
          /\ ctx = images[Len(images)].ctx
          /\ ctx.fmode = "FORMULATION_PIXELSIZE"

\* A series has been decoded whose first slice was taken at 200 kV and whose
\* second slice has voltage 0, both read from the file.
C9_BothVoltages ==
    /\ pc = "done"
    /\ Len(images) >= 2
    /\ Slot(0).filled /\ Slot(1).filled
    /\ Slot(0).rec.voltage = 200
    /\ Slot(1).rec.voltage = 0
    /\ Slot(0).rec.magnification # Slot(1).rec.magnification

\* C10: for every nz every slot of ext[] that mrc_read writes or reads has
\* an index in 0..1023, and every slot it reads was filled from the file
\* before; a plane count the array cannot hold is rejected.
C10_SlotsInBounds ==
    /\ ~oob
    /\ ~stale
    /\ Len(ext) <= ExtCapacity

====
